---- MODULE Spec2Model ----
(***************************************************************************)
(* Model of the TikTok-to-Discord pipeline:                                *)
(*   tiktok_scraper.get_trending_profiles   (fetch)                        *)
(*   data_processor.filter_profiles         (filter)                       *)
(*   discord_poster.post_profile_to_discord (publish)                      *)
(*   main.run_scraper_and_poster            (orchestration)                *)
(*                                                                         *)
(* Python values that may be None, an int or a str are tagged records      *)
(* [kind, n, s]; a str is the sequence of its characters, so that int()    *)
(* is computed from the characters.                                        *)
(***************************************************************************)
EXTENDS Integers, Sequences, FiniteSets, TLC

VARIABLES
    env,          \* os.environ: DISCORD_BOT_TOKEN, DISCORD_CHANNEL_ID, TIKTOK_MS_TOKEN, MIN_FOLLOWERS
    pc,           \* position of run_scraper_and_poster
    min_followers_str, \* the local of run_scraper_and_poster, NoneV before it is read
    feed,         \* the authors api.trending.videos() yields, in order
    feedEnd,      \* how the source ends: "exhausted", "feed_error" or "session_error"
    count,        \* the count argument of get_trending_profiles
    rawProfiles,  \* raw_profiles
    sourceError,  \* history: the except clause of get_trending_profiles ran
    filtered,     \* filtered_profiles
    idx,          \* position of the for loop in filtered_profiles (1-based)
    posted,       \* posted_profiles
    call,         \* the publisher call in flight: its position and what happened inside
    log,          \* history: one entry per loop turn that has completed
    inFlight,     \* history: number of post_profile_to_discord calls not yet returned
    botOpen,      \* the bot's gateway connection is open
    now,          \* elapsed asyncio.sleep time
    lastEnd,      \* history: value of now when the last publisher call returned, -1 if none
    scrapeCalls,  \* history: calls of get_trending_profiles
    publishCalls, \* history: calls of post_profile_to_discord
    reported      \* the count printed by the final summary line, -1 while not printed

vars == <<env, pc, min_followers_str, feed, feedEnd, count, rawProfiles, sourceError, filtered, idx, posted, call,
          log, inFlight, botOpen, now, lastEnd, scrapeCalls, publishCalls, reported>>

-----------------------------------------------------------------------------
(* Python values *)

NoneV == [kind |-> "none", n |-> 0, s |-> <<>>]
AbsentV == [kind |-> "absent", n |-> 0, s |-> <<>>]
IntV(i) == [kind |-> "int", n |-> i, s |-> <<>>]
StrV(chars) == [kind |-> "str", n |-> 0, s |-> chars]

\* Python truthiness: `not v` is true for None, "" and 0
Falsy(v) ==
    \/ v.kind \in {"none", "absent"}
    \/ v.kind = "str" /\ v.s = <<>>
    \/ v.kind = "int" /\ v.n = 0

\* None for the fields kept as plain strings (author id, uniqueId)
None == "None"

-----------------------------------------------------------------------------
(* int(str): surrounding whitespace stripped, an optional sign, then        *)
(* decimal digits with single underscores allowed between digits.           *)

Digits == <<"0", "1", "2", "3", "4", "5", "6", "7", "8", "9">>

IsDigit(c) == \E d \in 1..10 : Digits[d] = c

DigitVal(c) == (CHOOSE d \in 1..10 : Digits[d] = c) - 1

IsSpace(c) == c \in {" ", "\t", "\n"}

RECURSIVE LStrip(_)
LStrip(s) == IF s # <<>> /\ IsSpace(Head(s)) THEN LStrip(Tail(s)) ELSE s

RECURSIVE RStrip(_)
RStrip(s) ==
    IF s # <<>> /\ IsSpace(s[Len(s)]) THEN RStrip(SubSeq(s, 1, Len(s) - 1)) ELSE s

Strip(s) == RStrip(LStrip(s))

HasSign(s) == s # <<>> /\ Head(s) \in {"+", "-"}

Unsigned(s) == IF HasSign(s) THEN Tail(s) ELSE s

ValidDigits(b) ==
    /\ b # <<>>
    /\ IsDigit(b[1])
    /\ IsDigit(b[Len(b)])
    /\ \A i \in 1..Len(b) : IsDigit(b[i]) \/ b[i] = "_"
    /\ \A i \in 1..(Len(b) - 1) : ~(b[i] = "_" /\ b[i + 1] = "_")

RECURSIVE DigitsValue(_, _)
DigitsValue(b, acc) ==
    IF b = <<>> THEN acc
    ELSE IF Head(b) = "_" THEN DigitsValue(Tail(b), acc)
    ELSE DigitsValue(Tail(b), 10 * acc + DigitVal(Head(b)))

\* int(v) raises ValueError (bad text) or TypeError (None) exactly when ~PyIntOk(v)
PyIntOk(v) ==
    \/ v.kind = "int"
    \/ v.kind = "str" /\ ValidDigits(Unsigned(Strip(v.s)))

PyIntVal(v) ==
    IF v.kind = "int" THEN v.n
    ELSE LET t == Strip(v.s)
             m == DigitsValue(Unsigned(t), 0)
         IN IF HasSign(t) /\ Head(t) = "-" THEN 0 - m ELSE m

-----------------------------------------------------------------------------
(* data_processor.filter_profiles *)

\* lines 11-15: the threshold, 0 when int() raises ValueError or TypeError
MinFollowers(minStr) == IF PyIntOk(minStr) THEN PyIntVal(minStr) ELSE 0

\* lines 20-25: profile.get('follower_count', 0), a str parsed with fallback 0;
\* any other value (None included) is left as it is
CoerceCount(fc) ==
    IF fc.kind = "absent" THEN IntV(0)
    ELSE IF fc.kind = "str" THEN (IF PyIntOk(fc) THEN IntV(PyIntVal(fc)) ELSE IntV(0))
    ELSE fc

\* line 27: `follower_count >= min_followers` raises TypeError unless the left side is a number
CompareRaises(c) == c.kind # "int"

\* variant: a strict comparison, the boundary is excluded
Keeps_strict(c, m) == c.n > m

Keeps(c, m) == c.n >= m

\* lines 17-30: the loop; raised = TRUE when an exception leaves the function
RECURSIVE FilterLoop(_, _, _)
FilterLoop(profiles, m, acc) ==
    IF profiles = <<>> THEN [raised |-> FALSE, result |-> acc]
    ELSE LET c == CoerceCount(Head(profiles).follower_count)
         IN IF CompareRaises(c) THEN [raised |-> TRUE, result |-> <<>>]
            ELSE FilterLoop(Tail(profiles), m,
                            IF Keeps(c, m) THEN Append(acc, Head(profiles)) ELSE acc)

filter_profiles(profiles, minStr) == FilterLoop(profiles, MinFollowers(minStr), <<>>)

-----------------------------------------------------------------------------
(* tiktok_scraper.get_trending_profiles *)

\* `a or b` on str-or-None values
PyOr(a, b) == IF a \notin {None, ""} THEN a ELSE b

\* line 39
ProfileId(author) == PyOr(author.id, author.uniqueId)

\* lines 43-53 (the fields the pipeline reads afterwards)
ProfileData(author) ==
    [id |-> ProfileId(author),
     username |-> author.uniqueId,
     follower_count |-> author.followerCount]

HasKey(profiles, pid) == \E i \in 1..Len(profiles) : profiles[i].id = pid

\* line 41: the guard of the insertion
IsNewProfile(profiles, author) ==
    /\ ProfileId(author) \notin {None, ""}
    /\ ~HasKey(profiles, ProfileId(author))

\* variant: a later video of a known account overwrites its record
AddAuthor_lastWins(profiles, author) ==
    IF ProfileId(author) \in {None, ""} THEN profiles
    ELSE IF HasKey(profiles, ProfileId(author))
    THEN [k \in 1..Len(profiles) |->
             IF profiles[k].id = ProfileId(author) THEN ProfileData(author) ELSE profiles[k]]
    ELSE Append(profiles, ProfileData(author))

\* lines 41-54: unique_profiles after one video (a dict keeps insertion order)
AddAuthor(profiles, author) ==
    IF IsNewProfile(profiles, author) THEN Append(profiles, ProfileData(author))
    ELSE profiles

\* lines 34-57: the async for loop. taken = videos consumed, broke = left by `break`
RECURSIVE ScrapeLoop(_, _, _, _)
ScrapeLoop(videos, cnt, profiles, taken) ==
    IF videos = <<>> THEN [profiles |-> profiles, taken |-> taken, broke |-> FALSE]
    ELSE LET next == AddAuthor(profiles, Head(videos))
         IN IF Len(next) >= cnt
            THEN [profiles |-> next, taken |-> taken + 1, broke |-> TRUE]
            ELSE ScrapeLoop(Tail(videos), cnt, next, taken + 1)

\* variant: the except clause discards what was collected
get_trending_profiles_emptyOnError(fd, fend, cnt) ==
    IF fend = "session_error"
    THEN [profiles |-> <<>>, taken |-> 0, failed |-> TRUE]
    ELSE LET r == ScrapeLoop(fd, cnt, <<>>, 0)
             failed == fend = "feed_error" /\ ~r.broke
         IN [profiles |-> IF failed THEN <<>> ELSE r.profiles, taken |-> r.taken,
             failed |-> failed]

\* lines 18-63. fd = what the feed yields, fend = how the source ends:
\* "session_error": create_sessions raises; "feed_error": the iterator raises
\* when asked for the video after the last of fd; "exhausted": it stops.
\* The except clause swallows the exception and the function returns
\* list(unique_profiles.values()) in every case.
get_trending_profiles(fd, fend, cnt) ==
    IF fend = "session_error"
    THEN [profiles |-> <<>>, taken |-> 0, failed |-> TRUE]
    ELSE LET r == ScrapeLoop(fd, cnt, <<>>, 0)
         IN [profiles |-> r.profiles, taken |-> r.taken,
             failed |-> (fend = "feed_error" /\ ~r.broke)]

-----------------------------------------------------------------------------
(* Program constants and the bounded inputs *)

\* main.py line 38: get_trending_profiles(count=50)
ScrapeCount == 50

\* main.py line 79: asyncio.sleep(5)
SleepDelay == 5

\* main.py line 22: os.environ.get("MIN_FOLLOWERS", "100000")
DefaultMinFollowers == StrV(<<"1", "0", "0", "0", "0", "0">>)

MaxRunFeed == 2     \* videos in the trending feed of a whole run
MaxFeed == 3        \* videos in the feed when the scraper is checked alone
MaxCount == 2       \* largest count argument when the scraper is checked alone
MaxBatch == 2       \* profiles in a batch when the filter is checked alone

SeqsUpTo(S, n) == UNION {[1..k -> S] : k \in 0..n}

Author(i, u, fc) == [id |-> i, uniqueId |-> u, followerCount |-> fc]

\* authors of a whole run: two accounts may share a uniqueId; followerCount is
\* missing from the author dict (None), below or above the default threshold
RunAuthors ==
    {Author(i, u, fc) : i \in {"1", "2"}, u \in {"a", "b"},
                        fc \in {NoneV, IntV(50000), IntV(150000),
                                StrV(<<"1", "5", "0", "0", "0", "0">>)}}

\* authors when the scraper is checked alone: id or uniqueId may be missing or empty
ScrapeAuthors ==
    {Author(i, u, fc) : i \in {None, "", "1"}, u \in {None, "a", "1"},
                        fc \in {NoneV, IntV(7)}}

FeedEnds == {"exhausted", "feed_error", "session_error"}

Env(tok, ch, ms, mf) ==
    [DISCORD_BOT_TOKEN |-> tok, DISCORD_CHANNEL_ID |-> ch,
     TIKTOK_MS_TOKEN |-> ms, MIN_FOLLOWERS |-> mf]

\* an unset variable is NoneV (os.environ.get returns None)
Envs ==
    {Env(tok, ch, ms, mf) :
        tok \in {NoneV, StrV(<<>>), StrV(<<"t">>)},
        ch \in {NoneV, StrV(<<>>), StrV(<<"4", "2">>), StrV(<<"c", "h">>)},
        ms \in {NoneV, StrV(<<"m">>)},
        mf \in {NoneV, StrV(<<"a", "b", "c">>), StrV(<<"2", "0", "0", "0", "0", "0">>)}}

GoodEnv == Env(StrV(<<"t">>), StrV(<<"4", "2">>), StrV(<<"m">>), NoneV)

\* follower_count values of a batch given to the filter directly
FilterCounts ==
    {AbsentV, NoneV, IntV(0), IntV(50000), IntV(100000), IntV(150000),
     StrV(<<"1", "5", "0", "0", "0", "0">>), StrV(<<"5", "0", "0", "0", "0">>),
     StrV(<<" ", "1", "5", "0", "_", "0", "0", "0">>),
     StrV(<<"1", "5", "0", "k">>), StrV(<<>>), StrV(<<"-", "1">>)}

\* min_followers_str values given to the filter directly
Thresholds ==
    {NoneV, StrV(<<>>), StrV(<<"0">>), DefaultMinFollowers,
     StrV(<<"n", "o", "t", "-", "a", "-", "n", "u", "m", "b", "e", "r">>),
     StrV(<<"1", "0", "0", "_", "0", "0", "0", "\n">>), StrV(<<"-", "1">>),
     StrV(<<"1", "_", "_", "0">>), StrV(<<"+">>), IntV(100000)}

BatchName(i) == <<"p1", "p2", "p3", "p4">>[i]

Batches ==
    {[i \in 1..Len(cs) |-> [id |-> BatchName(i), username |-> BatchName(i),
                             follower_count |-> cs[i]]] :
        cs \in SeqsUpTo(FilterCounts, MaxBatch)}

-----------------------------------------------------------------------------
(* main.run_scraper_and_poster, with post_profile_to_discord inlined at    *)
(* its call site (pc "POST" to "BOT_DONE")                                 *)

NoCall == [exc |-> "", sent |-> FALSE, ret |-> FALSE]

Rest == <<feed, feedEnd, count>>

Raw == <<rawProfiles, sourceError>>

Conf == <<env, min_followers_str>>

LoopVars == <<filtered, idx, posted, log>>

Counters == <<scrapeCalls, publishCalls, reported>>

PostVars == <<call, inFlight, botOpen, now, lastEnd>>

\* lines 24-30: the two required settings
\* variant: the channel id is not checked
ConfigMissing_tokenOnly(e) == Falsy(e.DISCORD_BOT_TOKEN)

ConfigMissing(e) == Falsy(e.DISCORD_BOT_TOKEN) \/ Falsy(e.DISCORD_CHANNEL_ID)

\* line 22: os.environ.get("MIN_FOLLOWERS", "100000")
MinFollowersStr(e) ==
    IF e.MIN_FOLLOWERS.kind = "none" THEN DefaultMinFollowers ELSE e.MIN_FOLLOWERS

\* lines 20-34
LoadConfig ==
    /\ pc = "CONFIG_LOAD"
    /\ min_followers_str' = MinFollowersStr(env)
    /\ pc' = IF ConfigMissing(env) THEN "ABORT" ELSE "SCRAPE"
    /\ UNCHANGED <<env, Rest, Raw, LoopVars, PostVars, Counters>>

\* lines 36-39
Scrape ==
    /\ pc = "SCRAPE"
    /\ LET r == get_trending_profiles(feed, feedEnd, count)
       IN /\ rawProfiles' = r.profiles
          /\ sourceError' = r.failed
    /\ scrapeCalls' = scrapeCalls + 1
    /\ pc' = "FILTER"
    /\ UNCHANGED <<Conf, Rest, LoopVars, PostVars, publishCalls, reported>>

\* lines 41-54: an exception of filter_profiles leaves run_scraper_and_poster
Filter ==
    /\ pc = "FILTER"
    /\ LET r == filter_profiles(rawProfiles, min_followers_str)
       IN /\ filtered' = r.result
          /\ pc' = IF r.raised THEN "CRASHED"
                   ELSE IF r.result = <<>> THEN "DONE" ELSE "LOOP"
    /\ idx' = 1
    /\ posted' = {}
    /\ UNCHANGED <<Conf, Rest, Raw, log, PostVars, Counters>>

\* lines 56, 81: the loop is over, the summary is printed
LoopExit ==
    /\ pc = "LOOP"
    /\ idx > Len(filtered)
    /\ reported' = Cardinality(posted)
    /\ pc' = "DONE"
    /\ UNCHANGED <<Conf, Rest, Raw, LoopVars, PostVars, scrapeCalls, publishCalls>>

\* lines 57-59: continue, without a publish call and without the sleep
SkipPosted ==
    /\ pc = "LOOP"
    /\ idx <= Len(filtered)
    /\ filtered[idx].username \in posted
    /\ log' = Append(log, [i |-> idx, user |-> filtered[idx].username, skipped |-> TRUE,
                           ret |-> FALSE, sent |-> FALSE, exc |-> ""])
    /\ idx' = idx + 1
    /\ UNCHANGED <<Conf, pc, Rest, Raw, filtered, posted, PostVars, Counters>>

\* variant: the membership test of lines 58-59 is missing
BeginPost_noSuccessCheck ==
    /\ pc = "LOOP"
    /\ idx <= Len(filtered)
    /\ publishCalls' = publishCalls + 1
    /\ inFlight' = inFlight + 1
    /\ call' = NoCall
    /\ pc' = "POST"
    /\ UNCHANGED <<Conf, Rest, Raw, LoopVars, botOpen, now, lastEnd,
                   scrapeCalls, reported>>

\* lines 61-70: the call of post_profile_to_discord
BeginPost ==
    /\ pc = "LOOP"
    /\ idx <= Len(filtered)
    /\ filtered[idx].username \notin posted
    /\ publishCalls' = publishCalls + 1
    /\ inFlight' = inFlight + 1
    /\ call' = NoCall
    /\ pc' = "POST"
    /\ UNCHANGED <<Conf, Rest, Raw, LoopVars, botOpen, now, lastEnd,
                   scrapeCalls, reported>>

\* what every return of post_profile_to_discord does to the caller's state
Returns(c) ==
    /\ call' = c
    /\ inFlight' = inFlight - 1
    /\ lastEnd' = now
    /\ pc' = "RESULT"

\* discord_poster.py lines 37-42: the token check, then on_ready is registered
PostEnter ==
    /\ pc = "POST"
    /\ IF Falsy(env.DISCORD_BOT_TOKEN)
       THEN Returns([call EXCEPT !.ret = FALSE])
       ELSE /\ pc' = "BOT_START"
            /\ UNCHANGED <<call, inFlight, lastEnd>>
    /\ UNCHANGED <<Conf, Rest, Raw, LoopVars, botOpen, now, Counters>>

\* discord_poster.py lines 84, 86-91: bot.start raises, the function returns False
BotStartRaises ==
    /\ pc = "BOT_START"
    /\ \E e \in {"LoginFailure", "Exception"} :
          Returns([call EXCEPT !.exc = e, !.ret = FALSE])
    /\ UNCHANGED <<Conf, Rest, Raw, LoopVars, botOpen, now, Counters>>

\* discord_poster.py line 84: the bot logs in and connects, on_ready is dispatched
BotReady ==
    /\ pc = "BOT_START"
    /\ botOpen' = TRUE
    /\ pc' = "ON_READY"
    /\ UNCHANGED <<Conf, Rest, Raw, LoopVars, call, inFlight, now, lastEnd, Counters>>

\* discord_poster.py lines 22, 59: format(follower_count, ",") raises unless it is a number
FormatRaises(profile) == profile.follower_count.kind # "int"

\* discord_poster.py lines 46-80: the outcomes of on_ready. Every exception is
\* caught inside on_ready; every path ends with bot.close().
OnReadyOutcomes(channelId, profile) ==
    IF ~PyIntOk(channelId) THEN {[exc |-> "Exception", sent |-> FALSE]}
    ELSE {[exc |-> "", sent |-> FALSE]}                      \* channel not found
         \cup (IF FormatRaises(profile) THEN {[exc |-> "Exception", sent |-> FALSE]}
               ELSE {[exc |-> e, sent |-> FALSE] : e \in {"Forbidden", "HTTPException", "Exception"}}
                    \cup {[exc |-> "", sent |-> TRUE]})

OnReady ==
    /\ pc = "ON_READY"
    /\ \E o \in OnReadyOutcomes(env.DISCORD_CHANNEL_ID, filtered[idx]) :
          call' = [call EXCEPT !.exc = o.exc, !.sent = o.sent]
    /\ botOpen' = FALSE
    /\ pc' = "BOT_DONE"
    /\ UNCHANGED <<Conf, Rest, Raw, LoopVars, inFlight, now, lastEnd, Counters>>

\* discord_poster.py lines 84-85: bot.start returns once the bot is closed
PostReturn ==
    /\ pc = "BOT_DONE"
    /\ Returns([call EXCEPT !.ret = TRUE])
    /\ UNCHANGED <<Conf, Rest, Raw, LoopVars, botOpen, now, Counters>>

\* lines 72-76
RecordResult ==
    /\ pc = "RESULT"
    /\ posted' = IF call.ret THEN posted \cup {filtered[idx].username} ELSE posted
    /\ log' = Append(log, [i |-> idx, user |-> filtered[idx].username, skipped |-> FALSE,
                           ret |-> call.ret, sent |-> call.sent, exc |-> call.exc])
    /\ pc' = "SLEEP"
    /\ UNCHANGED <<Conf, Rest, Raw, filtered, idx, PostVars, Counters>>

\* variant: a failed publish ends the loop
Sleep_breakOnFailure ==
    /\ pc = "SLEEP"
    /\ now' = now + SleepDelay
    /\ idx' = IF call.ret THEN idx + 1 ELSE Len(filtered) + 1
    /\ pc' = "LOOP"
    /\ UNCHANGED <<Conf, Rest, Raw, filtered, posted, log, call, inFlight,
                   botOpen, lastEnd, Counters>>

\* variant: the delay is taken only after a successful publish
Sleep_onlyAfterSuccess ==
    /\ pc = "SLEEP"
    /\ now' = IF call.ret THEN now + SleepDelay ELSE now
    /\ idx' = idx + 1
    /\ pc' = "LOOP"
    /\ UNCHANGED <<Conf, Rest, Raw, filtered, posted, log, call, inFlight,
                   botOpen, lastEnd, Counters>>

\* line 79, then the next turn of the loop
Sleep ==
    /\ pc = "SLEEP"
    /\ now' = now + SleepDelay
    /\ idx' = idx + 1
    /\ pc' = "LOOP"
    /\ UNCHANGED <<Conf, Rest, Raw, filtered, posted, log, call, inFlight,
                   botOpen, lastEnd, Counters>>

-----------------------------------------------------------------------------
(* Specifications *)

Blank ==
    /\ sourceError = FALSE
    /\ filtered = <<>>
    /\ idx = 1
    /\ posted = {}
    /\ call = NoCall
    /\ log = <<>>
    /\ inFlight = 0
    /\ botOpen = FALSE
    /\ now = 0
    /\ lastEnd = -1
    /\ scrapeCalls = 0
    /\ publishCalls = 0
    /\ reported = -1

\* a whole run, from the start of run_scraper_and_poster
Init ==
    /\ env \in Envs
    /\ pc = "CONFIG_LOAD"
    /\ min_followers_str = NoneV
    /\ feed \in SeqsUpTo(RunAuthors, MaxRunFeed)
    /\ feedEnd \in FeedEnds
    /\ count = ScrapeCount
    /\ rawProfiles = <<>>
    /\ Blank

Next ==
    \/ LoadConfig
    \/ Scrape
    \/ Filter
    \/ LoopExit
    \/ SkipPosted
    \/ BeginPost
    \/ PostEnter
    \/ BotStartRaises
    \/ BotReady
    \/ OnReady
    \/ PostReturn
    \/ RecordResult
    \/ Sleep

Spec == Init /\ [][Next]_vars

\* get_trending_profiles alone: any feed, any ending, any count
InitScrape ==
    /\ env = GoodEnv
    /\ pc = "SCRAPE"
    /\ min_followers_str = DefaultMinFollowers
    /\ feed \in SeqsUpTo(ScrapeAuthors, MaxFeed)
    /\ feedEnd \in FeedEnds
    /\ count \in 1..MaxCount
    /\ rawProfiles = <<>>
    /\ Blank

NextScrape == Scrape

SpecScrape == InitScrape /\ [][NextScrape]_vars

\* filter_profiles alone: any batch, any threshold argument
InitFilter ==
    /\ env = GoodEnv
    /\ pc = "FILTER"
    /\ min_followers_str \in Thresholds
    /\ feed = <<>>
    /\ feedEnd = "exhausted"
    /\ count = ScrapeCount
    /\ rawProfiles \in Batches
    /\ Blank

NextFilter == Filter

SpecFilter == InitFilter /\ [][NextFilter]_vars

-----------------------------------------------------------------------------
(* Properties of filter_profiles *)

\* the threshold as the specification states it: the parsed integer, else 0
StatedThreshold(t) == IF PyIntOk(t) THEN PyIntVal(t) ELSE 0

\* the follower count as the specification states it
StatedCount(fc) ==
    CASE fc.kind = "absent" -> 0
      [] fc.kind = "str" -> (IF PyIntOk(fc) THEN PyIntVal(fc) ELSE 0)
      [] OTHER -> fc.n

StatedKeep(p) == StatedCount(p.follower_count) >= StatedThreshold(min_followers_str)

\* every follower count of the batch is an integer, a string or absent
BatchIsCountable ==
    \A i \in 1..Len(rawProfiles) : rawProfiles[i].follower_count.kind \in {"absent", "int", "str"}

FilterDone == pc \notin {"CONFIG_LOAD", "ABORT", "SCRAPE", "FILTER"}

\* C1: on a batch whose follower counts are integers, strings or absent,
\* filter_profiles returns exactly the records whose coerced count is >= the
\* coerced threshold, in input order; a threshold that does not parse gives
\* the result of the threshold "0".
C1_FilterExact ==
    (FilterDone /\ BatchIsCountable) =>
        /\ pc # "CRASHED"
        /\ filtered = SelectSeq(rawProfiles, StatedKeep)
        /\ ~PyIntOk(min_followers_str) =>
               filtered = filter_profiles(rawProfiles, StrV(<<"0">>)).result

\* a record with an unparsable string count is dropped and the record whose
\* count equals the threshold is kept
C1_Witness ==
    /\ FilterDone
    /\ Len(rawProfiles) = 2
    /\ rawProfiles[1].follower_count.kind = "str"
    /\ ~PyIntOk(rawProfiles[1].follower_count)
    /\ rawProfiles[2].follower_count = IntV(100000)
    /\ min_followers_str = DefaultMinFollowers
    /\ filtered = <<rawProfiles[2]>>

\* C2: filter_profiles never ends in an error, whatever the batch and the threshold
C2_FilterNeverRaises == pc # "CRASHED"

-----------------------------------------------------------------------------
(* Properties of the configuration phase *)

Unset(v) == v = NoneV \/ v = StrV(<<>>)

RequiredMissing == Unset(env.DISCORD_BOT_TOKEN) \/ Unset(env.DISCORD_CHANNEL_ID)

\* C3: when DISCORD_BOT_TOKEN or DISCORD_CHANNEL_ID is absent or empty the run
\* goes from CONFIG_LOAD to ABORT only, with no call of get_trending_profiles
\* and none of post_profile_to_discord; the run aborts for no other reason
\* (a missing TIKTOK_MS_TOKEN does not abort it).
C3_AbortBeforeNetwork ==
    /\ RequiredMissing =>
          /\ pc \in {"CONFIG_LOAD", "ABORT"}
          /\ scrapeCalls = 0
          /\ publishCalls = 0
    /\ pc = "ABORT" => RequiredMissing

\* the token is set, the channel id is the empty string, the run has aborted
C3_Witness ==
    /\ pc = "ABORT"
    /\ env.DISCORD_BOT_TOKEN = StrV(<<"t">>)
    /\ env.DISCORD_CHANNEL_ID = StrV(<<>>)
    /\ scrapeCalls = 0

-----------------------------------------------------------------------------
(* Properties of the publish loop *)

Turns == 1..Len(log)

Attempted(k) == ~log[k].skipped

\* usernames whose publish had returned true before turn k
SucceededBefore(k) == {log[j].user : j \in {t \in 1..(k - 1) : Attempted(t) /\ log[t].ret}}

InCall == pc \in {"POST", "BOT_START", "ON_READY", "BOT_DONE"}

LoopOver == pc = "DONE" /\ filtered # <<>>

\* C4: a publish that returns false does not stop the loop: the turns are the
\* filtered profiles in order, a profile whose username is not in the success
\* set at its turn gets one publish call, and the final count is the number
\* of calls that returned true.
C4_NoShortCircuit ==
    /\ \A k \in Turns :
          /\ log[k].i = k
          /\ log[k].user = filtered[k].username
          /\ log[k].user \notin SucceededBefore(k) => Attempted(k)
    /\ publishCalls = Cardinality({k \in Turns : Attempted(k)})
                      + (IF InCall \/ pc = "RESULT" THEN 1 ELSE 0)
    /\ LoopOver =>
          /\ Len(log) = Len(filtered)
          /\ reported = Cardinality({k \in Turns : Attempted(k) /\ log[k].ret})

\* two profiles of different usernames: the first publish failed, the second
\* succeeded, the run reported 1
C4_Witness ==
    /\ LoopOver
    /\ Len(log) = 2
    /\ Attempted(1) /\ ~log[1].ret
    /\ Attempted(2) /\ log[2].ret
    /\ log[1].user # log[2].user
    /\ publishCalls = 2
    /\ reported = 1

\* C5: an exception raised while one profile is published makes that publish
\* a failed one (the username does not enter the success set), and the loop
\* goes on.
C5_ExceptionIsFailure ==
    /\ \A k \in Turns : (Attempted(k) /\ log[k].exc # "") => ~log[k].ret
    /\ (pc = "RESULT" /\ call.exc # "") => ~call.ret

\* C6: post_profile_to_discord returns true only when the message was sent,
\* so every username of the success set had its message sent.
C6_TrueOnlyWhenSent ==
    /\ \A k \in Turns : (Attempted(k) /\ log[k].ret) => log[k].sent
    /\ \A u \in posted : \E k \in Turns : log[k].user = u /\ log[k].sent

\* C7: a profile whose username is already in the success set is skipped
\* without a publish call, no username has two publishes that returned true,
\* and a username whose earlier publishes all failed is tried again.
C7_OncePerUsername ==
    /\ \A k \in Turns : log[k].skipped <=> log[k].user \in SucceededBefore(k)
    /\ \A j, k \in Turns :
          (j < k /\ log[j].user = log[k].user /\ Attempted(j) /\ log[j].ret)
              => (log[k].skipped /\ ~log[k].ret)
    /\ (~InCall /\ pc # "RESULT") => posted = SucceededBefore(Len(log) + 1)

\* the second profile has the username of the first, whose publish succeeded:
\* it was skipped and one call was made
C7_Witness ==
    /\ LoopOver
    /\ Len(log) = 2
    /\ log[1].user = log[2].user
    /\ Attempted(1) /\ log[1].ret
    /\ log[2].skipped
    /\ publishCalls = 1
    /\ reported = 1

\* C10: at most one publisher call is in flight; a call starts with the bot
\* closed and, after an earlier call, at least 5 time units after that call
\* returned, whether it succeeded or failed; a skipped profile costs neither
\* a call nor a delay.
C10_SerializedAndPaced ==
    /\ inFlight = (IF InCall THEN 1 ELSE 0)
    /\ botOpen => pc = "ON_READY"
    /\ pc = "POST" => (lastEnd = -1 \/ now >= lastEnd + 5)
    /\ now = 5 * (Cardinality({k \in Turns : Attempted(k)})
                  - (IF pc = "SLEEP" THEN 1 ELSE 0))
    /\ \A k \in Turns : log[k].skipped => ~log[k].ret /\ ~log[k].sent

\* a second call starts after a first one that failed
C10_Witness ==
    /\ pc = "POST"
    /\ Len(log) = 1
    /\ Attempted(1) /\ ~log[1].ret
    /\ lastEnd = 0
    /\ now = 5

-----------------------------------------------------------------------------
(* Properties of get_trending_profiles *)

Scraped == scrapeCalls >= 1

\* the account of a video: the author's id, else the author's uniqueId
StatedAccount(a) == IF a.id \notin {None, ""} THEN a.id ELSE a.uniqueId

\* the accounts among the first n videos of the feed
AccountsIn(n) == {StatedAccount(feed[j]) : j \in 1..n} \ {None, ""}

\* the number of videos after which count accounts are known, else the whole feed
StopAt ==
    LET enough == {n \in 1..Len(feed) : Cardinality(AccountsIn(n)) >= count}
    IN IF enough = {} THEN Len(feed)
       ELSE CHOOSE n \in enough : \A m \in enough : n <= m

FirstVideoOf(acc) ==
    CHOOSE j \in 1..Len(feed) :
        /\ StatedAccount(feed[j]) = acc
        /\ \A i \in 1..(j - 1) : StatedAccount(feed[i]) # acc

RawIds == {rawProfiles[k].id : k \in 1..Len(rawProfiles)}

C9_FirstSeenUnique ==
    Scraped =>
        /\ \A k, l \in 1..Len(rawProfiles) : k # l => rawProfiles[k].id # rawProfiles[l].id
        /\ Len(rawProfiles) <= count
        /\ feedEnd # "session_error" =>
              /\ RawIds = AccountsIn(StopAt)
              /\ \A k \in 1..Len(rawProfiles) :
                    LET v == feed[FirstVideoOf(rawProfiles[k].id)]
                    IN /\ rawProfiles[k].username = v.uniqueId
                       /\ rawProfiles[k].follower_count = v.followerCount
              /\ \A k, l \in 1..Len(rawProfiles) :
                    k < l => FirstVideoOf(rawProfiles[k].id) < FirstVideoOf(rawProfiles[l].id)

\* the second video is of the account of the first with other data, the third
\* completes count = 2: the first record has the data of the first video
C9_Witness ==
    /\ Scraped
    /\ count = 2
    /\ Len(feed) = 3
    /\ StatedAccount(feed[1]) = StatedAccount(feed[2])
    /\ feed[1].followerCount # feed[2].followerCount
    /\ Len(rawProfiles) = 2
    /\ rawProfiles[1].follower_count = feed[1].followerCount
    /\ rawProfiles[2].id = StatedAccount(feed[3])

====
